---- MODULE Spec2Model ----
(***************************************************************************)
(* Model of addons/print/models/print_printer.py (Odoo model               *)
(* 'print.printer'): printer resolution, spooling of documents, reports    *)
(* and test pages through lpr, and the management of the user and system   *)
(* default printers.                                                       *)
(*                                                                         *)
(* Every public method runs in the database transaction of its caller      *)
(* (one cursor per request, REPEATABLE READ): a caller reads the snapshot  *)
(* taken when its call began, overlaid with its own writes, and its writes *)
(* reach the other callers at commit.  The two SQL constraints of the      *)
(* model are enforced by the store on every write.                         *)
(*                                                                         *)
(* Text is modelled as a sequence of chunks (TLA+ strings); the empty text *)
(* is << >>.  Bytes are sequences of one-character strings.                *)
(***************************************************************************)
EXTENDS Integers, Sequences, FiniteSets, TLC

-----------------------------------------------------------------------------
(* Bounds *)

NumPrinters == 3        \* print.printer records, ids 1..NumPrinters
MaxTargets == 2         \* longest explicit recordset a method is called on
MaxCopies == 10         \* largest copies argument

Printers == 1..NumPrinters
Users == {"u1", "u2"}
Callers == {"c1", "c2"}
Documents == {"%PDF-a", "%PDF-b"}

None == 0               \* empty many2one (no printer)

-----------------------------------------------------------------------------
(* Generic helpers *)

Range(s) == {s[i] : i \in DOMAIN s}

Min(S) == CHOOSE x \in S : \A y \in S : x <= y

\* Records of a search(), in the model's default order (by id).
RECURSIVE SortedSeq(_)
SortedSeq(S) == IF S = {} THEN << >>
                ELSE LET m == Min(S) IN <<m>> \o SortedSeq(S \ {m})

\* Recordsets: sequences of distinct printer ids, at most MaxTargets long.
Recordsets == {s \in UNION {[1..n -> Printers] : n \in 0..MaxTargets} :
                 \A i, j \in DOMAIN s : i # j => s[i] # s[j]}

\* Merge as it would be keeping the value a row already has.
Merge_keep(f, g) == [x \in (DOMAIN f) \cup (DOMAIN g) |->
                       IF x \in DOMAIN f THEN f[x] ELSE g[x]]

\* f overridden by g on g's domain.
Merge(f, g) == [x \in (DOMAIN f) \cup (DOMAIN g) |->
                  IF x \in DOMAIN g THEN g[x] ELSE f[x]]

EmptyMap == [x \in {} |-> FALSE]

-----------------------------------------------------------------------------
(* Text conversions *)

Digit(d) == CASE d = 0 -> "0" [] d = 1 -> "1" [] d = 2 -> "2" [] d = 3 -> "3"
              [] d = 4 -> "4" [] d = 5 -> "5" [] d = 6 -> "6" [] d = 7 -> "7"
              [] d = 8 -> "8" [] d = 9 -> "9"

RECURSIVE NatStr(_)
NatStr(n) == IF n < 10 THEN <<Digit(n)>>
             ELSE NatStr(n \div 10) \o <<Digit(n % 10)>>

\* Python str() of an int.
str(n) == IF n < 0 THEN <<"-">> \o NatStr(0 - n) ELSE NatStr(n)

\* Captured outputs the model draws from: bytes, each a number in 0..255
\* ("p\n", a single quote, a tab followed by a form feed).
Outputs == {<< >>, <<112, 10>>, <<39>>, <<9, 12>>}

\* The grave accent (96), the one printable character a string literal cannot
\* hold, is written as this token wherever it appears in a text.
Grave == "GRAVE"

\* The printable ASCII characters, from the space (32) to the tilde (126).
Printable ==
    << " ", "!", "\"", "#", "$", "%", "&", "'", "(", ")", "*", "+",
       ",", "-", ".", "/", "0", "1", "2", "3", "4", "5", "6", "7",
       "8", "9", ":", ";", "<", "=", ">", "?", "@", "A", "B", "C",
       "D", "E", "F", "G", "H", "I", "J", "K", "L", "M", "N", "O",
       "P", "Q", "R", "S", "T", "U", "V", "W", "X", "Y", "Z", "[",
       "\\", "]", "^", "_", Grave, "a", "b", "c", "d", "e", "f",
       "g",
       "h", "i", "j", "k", "l", "m", "n", "o", "p", "q", "r", "s",
       "t", "u", "v", "w", "x", "y", "z", "{", "|", "}", "~" >>

\* The character of a printable byte.
Chr(b) == Printable[b - 31]

\* One lowercase hexadecimal digit.
HexDigit(d) == IF d < 10 THEN Digit(d)
               ELSE CASE d = 10 -> "a" [] d = 11 -> "b" [] d = 12 -> "c"
                      [] d = 13 -> "d" [] d = 14 -> "e" [] d = 15 -> "f"

\* One byte inside a Python bytes literal delimited by quote q: a backslash
\* before the backslash and before the delimiting quote, \t \n \r for tab,
\* line feed and carriage return, \xNN for every other byte below the space
\* or above the tilde, and the character itself otherwise.
ReprByte(b, q) ==
    IF b = 92 THEN <<"\\", "\\">>
    ELSE IF b = 9 THEN <<"\\", "t">>
    ELSE IF b = 10 THEN <<"\\", "n">>
    ELSE IF b = 13 THEN <<"\\", "r">>
    ELSE IF b < 32 \/ b >= 127
    THEN <<"\\", "x", HexDigit(b \div 16), HexDigit(b % 16)>>
    ELSE IF Chr(b) = q THEN <<"\\", q>>
    ELSE <<Chr(b)>>

RECURSIVE ReprBody(_, _)
ReprBody(bs, q) == IF bs = << >> THEN << >>
                   ELSE ReprByte(Head(bs), q) \o ReprBody(Tail(bs), q)

\* Python 3 "%s" % bytes, i.e. repr(bytes): b'...' with escapes, double
\* quotes when the bytes hold a single quote (39) and no double quote (34).
BytesRepr(bs) ==
    LET q == IF 39 \in Range(bs) /\ ~(34 \in Range(bs)) THEN "\"" ELSE "'"
    IN <<"b", q>> \o ReprBody(bs, q) \o <<q>>

-----------------------------------------------------------------------------
(* State *)

VARIABLES
    os_name,      \* os.name of the host
    lpr_path,     \* what find_in_path('lpr') finds; << >> when it finds nothing
    queue,        \* print.printer.queue, per printer (<< >> when not set)
    is_default,   \* print.printer.is_default, per printer (committed rows)
    printer_id,   \* res.users.printer_id, per user (committed rows)
    uid,          \* the user each caller runs as (env.user)
    pc,           \* position of each caller in the method it is running
    call,         \* method and arguments of the caller's current or last call
    snap,         \* rows as of the start of the caller's transaction
    wr,           \* the caller's uncommitted writes to is_default
    uw,           \* the caller's uncommitted writes to printer_id
    stale,        \* rows committed by others since the caller's snapshot
    found,        \* set_system_default: the records its search returned
    lpr_exec,     \* _spool_lpr: the executable found
    printers,     \* _spool_lpr: the recordset returned by _printers()
    idx,          \* _spool_lpr: position of the loop in printers
    procs,        \* lpr processes the call has spawned, in order
    output,       \* _spool_lpr: the output captured from the last process
    result,       \* how the caller's last call ended
    prev,         \* the default the caller's previous call set, if it set one
    name,         \* print.printer.name, per printer
    barcode,      \* print.printer.barcode, per printer (committed rows)
    bw,           \* the caller's uncommitted writes to barcode
    vals,         \* write: the barcode the caller's write is to store
    rep,          \* spool_report: its arguments and locals
    tp            \* spool_test_page: its printers and its place among them

vars == <<os_name, lpr_path, queue, is_default, printer_id, uid, pc, call,
          snap, wr, uw, stale, found, lpr_exec, printers, idx, procs, output,
          result, prev, name, barcode, bw, vals, rep, tp>>

env_vars == <<os_name, lpr_path, queue, uid, name>>
db_vars == <<is_default, printer_id>>
reg_vars == <<barcode, bw, vals>>
report_vars == <<rep, tp>>
lpr_vars == <<lpr_exec, printers, idx, procs, output>>

OsNames == {"posix", "nt"}
LprPaths == {<< >>, <<"/usr/bin/lpr">>}

NoTitle == [given |-> FALSE, text |-> << >>]
GivenTitle(t) == [given |-> TRUE, text |-> t]
Titles == {NoTitle, GivenTitle(<< >>), GivenTitle(<<"Test page">>)}
CopiesValues == {0 - 1, 0, 1, 2, MaxCopies}
ExitCodes == {0, 1, 0 - 9}

NoCall == [op |-> "none", self |-> << >>, document |-> "", title |-> NoTitle,
           copies |-> 1]
NoSnap == [is_default |-> EmptyMap, printer_id |-> EmptyMap]
NoStale == [printers |-> {}, users |-> {}]

Ok == [status |-> "ok", msg |-> << >>]
UserError(msg) == [status |-> "UserError", msg |-> msg]
ValueError(msg) == [status |-> "ValueError", msg |-> msg]
SerializationFailure == [status |-> "TransactionRollbackError",
                         msg |-> <<"could not serialize access">>]
IntegrityError(msg) == [status |-> "IntegrityError", msg |-> msg]
Running == [status |-> "running", msg |-> << >>]
NoPrev == [op |-> "none", printer |-> None]

\* What a finished call leaves for the next one to follow: the printer it made
\* a default, when it was a default-setting call that returned True.
DefaultSet(cl, res) ==
    IF cl.op \in {"set_user_default", "set_system_default"} /\ res = Ok
    THEN [op |-> cl.op, printer |-> cl.self[1]]
    ELSE NoPrev

\* print.printer.name of the records (required, never written by a method).
PrinterNames == [p \in Printers |-> <<"Printer ">> \o str(p)]

\* A barcode column value: False (NULL in the column) or a text, maybe empty.
NoBarcode == [given |-> FALSE, text |-> << >>]
Barcode(t) == [given |-> TRUE, text |-> t]
BarcodeValues == {NoBarcode, Barcode(<< >>), Barcode(<<"4006381">>)}

\* ir.actions.report records and the value of an empty lookup.
Reports == {"invoice", "test_page"}
NoReport == "none"

\* The report the module ships for test pages, and the reference
\* spool_test_page gives for it.
TestPageReport == "test_page"
TestPageName == "print.report_test_page"

\* Report._get_report_from_name(name): the report whose report_name is name.
_get_report_from_name(n) ==
    IF n = "account.report_invoice" THEN "invoice" ELSE NoReport

\* self.env.ref(name, raise_if_not_found=False): the report whose external
\* identifier is name.
env_ref(n) ==
    IF n = "account.account_invoices" THEN "invoice"
    ELSE IF n = TestPageName THEN TestPageReport
    ELSE NoReport

\* report.name as "%s" writes it: the display name of a report, and False for
\* the name of an empty recordset.
report_display_name(r) ==
    IF r = "invoice" THEN <<"Invoices">>
    ELSE IF r = NoReport THEN <<"False">>
    ELSE <<"Printer test page">>

\* The report_name argument: a record of ir.actions.report (the recordset of
\* one report, or the empty recordset, NoReport) or a string.
ReportRecord(r) == [record |-> TRUE, ref |-> r]
ReportName(n) == [record |-> FALSE, ref |-> n]
ReportRefs == {ReportRecord("invoice"), ReportRecord(NoReport),
               ReportName("account.report_invoice"),
               ReportName("account.account_invoices"),
               ReportName("sale.no_such_report")}

\* The docids argument: lists of record ids.
DocidsValues == {<<7>>, <<7, 12>>}

\* Python str() of a list of ints: "[7, 12]".
RECURSIVE JoinInts(_)
JoinInts(ids) ==
    IF ids = << >> THEN << >>
    ELSE IF Len(ids) = 1 THEN str(ids[1])
    ELSE str(Head(ids)) \o <<", ">> \o JoinInts(Tail(ids))

ListStr(ids) == <<"[">> \o JoinInts(ids) \o <<"]">>

\* Arguments and locals of a spool_report that has just been called.
ReportFrame(self, docids, report_name, title, copies) ==
    [self |-> self, docids |-> docids, report_name |-> report_name,
     title |-> title, copies |-> copies, lookups |-> << >>,
     report |-> NoReport, document |-> ""]

NoRep == ReportFrame(<< >>, << >>, ReportName(""), NoTitle, 1)
NoTp == [printers |-> << >>, idx |-> 0]

-----------------------------------------------------------------------------
(* The store: rows, snapshots, row locks and the SQL constraints *)

\* is_default of every printer as the caller's transaction sees it.
View(c) == Merge(snap[c].is_default, wr[c])

\* printer_id of every user as the caller's transaction sees it.
UserView(c) == Merge(snap[c].printer_id, uw[c])

\* Outcome of an UPDATE of printer rows by caller c: a row another
\* transaction changed and committed since c's snapshot cannot be updated,
\* a row another open transaction wrote makes c wait.
UpdateStatus(c, rows) ==
    IF rows \cap stale[c].printers # {} THEN "fail"
    ELSE IF \E d \in Callers \ {c} :
                rows \cap (DOMAIN wr[d] \cup DOMAIN bw[d]) # {} THEN "wait"
    ELSE "ok"

UserUpdateStatus(c, u) ==
    IF u \in stale[c].users THEN "fail"
    ELSE IF \E d \in Callers \ {c} : u \in DOMAIN uw[d] THEN "wait"
    ELSE "ok"

\* single_default as it would be with the exclusion constraint left out.
single_default_missing(c, p) == "ok"

\* ('single_default', 'exclude (is_default with =) where (is_default)'):
\* the check the store makes when caller c writes is_default = TRUE on p.
\* It looks at the latest version of every other row: one that is flagged and
\* live is a violation, one that an open transaction is changing is waited for.
single_default(c, p) ==
    LET others == Printers \ {p}
        live(q) == \/ q \in DOMAIN wr[c] /\ wr[c][q]
                   \/ /\ q \notin DOMAIN wr[c]
                      /\ is_default[q]
                      /\ \A d \in Callers \ {c} : q \notin DOMAIN wr[d]
        pending(q) == \E d \in Callers \ {c} :
                         q \in DOMAIN wr[d] /\ (wr[d][q] \/ is_default[q])
    IN IF \E q \in others : live(q) THEN "violation"
       ELSE IF \E q \in others : q \notin DOMAIN wr[c] /\ pending(q) THEN "wait"
       ELSE "ok"

\* Start of a request: the arguments, a fresh transaction and fresh locals.
BeginCall(c, op, self, document, title, copies, next) ==
    /\ call' = [call EXCEPT ![c] = [op |-> op, self |-> self,
                                    document |-> document, title |-> title,
                                    copies |-> copies]]
    /\ snap' = [snap EXCEPT ![c] = [is_default |-> is_default,
                                    printer_id |-> printer_id]]
    /\ result' = [result EXCEPT ![c] = Running]
    /\ pc' = [pc EXCEPT ![c] = next]
    /\ UNCHANGED <<env_vars, db_vars, barcode, bw, tp, wr, uw, stale, found,
                   lpr_vars, prev>>

\* The method returns True (res = Ok) or raises (any other res).
Return(c, res) ==
    /\ result' = [result EXCEPT ![c] = res]
    /\ pc' = [pc EXCEPT ![c] = "done"]

\* The method goes on to its next statement.
Goto(c, next) ==
    /\ pc' = [pc EXCEPT ![c] = next]
    /\ UNCHANGED result

\* End of the request: commit when the method returned, rollback when it
\* raised; the caller has its answer, the transaction and the locals are gone.
request_end(c) ==
    /\ pc[c] = "done"
    /\ pc' = [pc EXCEPT ![c] = "idle"]
    /\ IF result[c] = Ok
       THEN /\ is_default' = Merge(is_default, wr[c])
            /\ printer_id' = Merge(printer_id, uw[c])
            /\ barcode' = Merge(barcode, bw[c])
            /\ stale' = [d \in Callers |->
                           IF d = c \/ pc[d] = "idle" THEN NoStale
                           ELSE [printers |-> stale[d].printers
                                              \cup DOMAIN wr[c] \cup DOMAIN bw[c],
                                 users |-> stale[d].users \cup DOMAIN uw[c]]]
       ELSE /\ UNCHANGED <<db_vars, barcode>>
            /\ stale' = [stale EXCEPT ![c] = NoStale]
    /\ prev' = [prev EXCEPT ![c] = DefaultSet(call[c], result[c])]
    /\ call' = [call EXCEPT ![c] = NoCall]
    /\ result' = [result EXCEPT ![c] = Ok]
    /\ snap' = [snap EXCEPT ![c] = NoSnap]
    /\ wr' = [wr EXCEPT ![c] = EmptyMap]
    /\ uw' = [uw EXCEPT ![c] = EmptyMap]
    /\ found' = [found EXCEPT ![c] = << >>]
    /\ lpr_exec' = [lpr_exec EXCEPT ![c] = << >>]
    /\ printers' = [printers EXCEPT ![c] = << >>]
    /\ idx' = [idx EXCEPT ![c] = 0]
    /\ procs' = [procs EXCEPT ![c] = << >>]
    /\ output' = [output EXCEPT ![c] = << >>]
    /\ bw' = [bw EXCEPT ![c] = EmptyMap]
    /\ vals' = [vals EXCEPT ![c] = NoBarcode]
    /\ rep' = [rep EXCEPT ![c] = NoRep]
    /\ tp' = [tp EXCEPT ![c] = NoTp]
    /\ UNCHANGED env_vars

-----------------------------------------------------------------------------
(* Pure parts of the methods *)

\* ensure_one as it would be refusing the empty recordset only.
ensure_one_nonempty(self) == Len(self) >= 1

\* ensure_one(): the recordset must hold exactly one record.
ensure_one(self) == Len(self) = 1

\* search([('is_default', '=', True)]) in the caller's transaction.
search_is_default(c) == SortedSeq({p \in Printers : View(c)[p]})

\* _printers as it would be with the user's printer tried before self.
_printers_user_first(self, user_printer, defaults) ==
    IF user_printer # None THEN <<user_printer>>
    ELSE IF self # << >> THEN self
    ELSE defaults

\* _printers as it would be falling back to the first printer of the registry.
_printers_fallback(self, user_printer, defaults) ==
    IF self # << >> THEN self
    ELSE IF user_printer # None THEN <<user_printer>>
    ELSE IF defaults # << >> THEN defaults
    ELSE <<Min(Printers)>>

\* _printers as it would be with the system default tried before the user's
\* printer.
_printers_system_first(self, user_printer, defaults) ==
    IF self # << >> THEN self
    ELSE IF defaults # << >> THEN defaults
    ELSE IF user_printer # None THEN <<user_printer>>
    ELSE << >>

\* _printers(): self, else the user's printer, else the system default(s).
\* A recordset is true when it is not empty.
_printers(self, user_printer, defaults) ==
    IF self # << >> THEN self
    ELSE IF user_printer # None THEN <<user_printer>>
    ELSE defaults

\* lpr_args as it would be with "if title:" for "if title is not None:".
lpr_args_truthy_title(exec, q, title, copies) ==
    <<exec>>
    \o (IF q # << >> THEN << <<"-P">>, q >> ELSE << >>)
    \o (IF title.given /\ title.text # << >>
        THEN << <<"-T">>, title.text >> ELSE << >>)
    \o (IF copies > 1 THEN << <<"-#">>, str(copies) >> ELSE << >>)

\* The lpr command line, one token per element.
lpr_args(exec, q, title, copies) ==
    <<exec>>
    \o (IF q # << >> THEN << <<"-P">>, q >> ELSE << >>)
    \o (IF title.given THEN << <<"-T">>, title.text >> ELSE << >>)
    \o (IF copies > 1 THEN << <<"-#">>, str(copies) >> ELSE << >>)

\* UserError raised for a non-zero lpr.returncode.
lpr_failed(returncode, out) ==
    UserError(<<"lpr failed (error code: ">> \o str(returncode)
              \o <<"). Message: ">> \o BytesRepr(out))

NoPrinterError == UserError(<<"No default printer specified">>)
NoLprError == UserError(<<"Cannot find lpr executable">>)
OsError(os) == UserError(<<"Cannot print on OS: ", os>>)
\* Python str() of a tuple of ints: "()", "(7,)", "(7, 12)".
TupleStr(ids) ==
    <<"(">> \o JoinInts(ids) \o (IF Len(ids) = 1 THEN <<",">> ELSE << >>)
    \o <<")">>

\* ValueError raised by ensure_one(): "Expected singleton: %s" % self, a
\* recordset being written as its model's name and the tuple of its ids.
SingletonError(self) ==
    ValueError(<<"Expected singleton: ", "print.printer">> \o TupleStr(self))
SingleDefaultError ==
    IntegrityError(<<"There must be only one System Default Printer">>)

-----------------------------------------------------------------------------
(* set_user_default *)

set_user_default_call(c, selfs) ==
    /\ pc[c] = "idle"
    /\ \E self \in selfs :
        /\ BeginCall(c, "set_user_default", self, "", NoTitle, 1,
                     "sud_ensure_one")
        /\ UNCHANGED <<rep, vals>>

\* self.ensure_one()
sud_ensure_one(c) ==
    /\ pc[c] = "sud_ensure_one"
    /\ IF ensure_one(call[c].self)
       THEN Goto(c, "sud_write")
       ELSE Return(c, SingletonError(call[c].self))
    /\ UNCHANGED <<env_vars, db_vars, reg_vars, report_vars, call, snap, wr,
                   uw, stale, found, lpr_vars, prev>>

\* self.env.user.printer_id = self
sud_write(c) ==
    /\ pc[c] = "sud_write"
    /\ UserUpdateStatus(c, uid[c]) # "wait"
    /\ IF UserUpdateStatus(c, uid[c]) = "ok"
       THEN /\ uw' = [uw EXCEPT ![c] = Merge(uw[c],
                                 [u \in {uid[c]} |-> call[c].self[1]])]
            /\ Goto(c, "sud_return")
       ELSE /\ Return(c, SerializationFailure)
            /\ UNCHANGED uw
    /\ UNCHANGED <<env_vars, db_vars, reg_vars, report_vars, call, snap, wr,
                   stale, found, lpr_vars, prev>>

\* return True
sud_return(c) ==
    /\ pc[c] = "sud_return"
    /\ Return(c, Ok)
    /\ UNCHANGED <<env_vars, db_vars, reg_vars, report_vars, call, snap, wr,
                   uw, stale, found, lpr_vars, prev>>

-----------------------------------------------------------------------------
(* set_system_default *)

set_system_default_call(c, selfs) ==
    /\ pc[c] = "idle"
    /\ \E self \in selfs :
        /\ BeginCall(c, "set_system_default", self, "", NoTitle, 1,
                     "ssd_ensure_one")
        /\ UNCHANGED <<rep, vals>>

\* self.ensure_one()
ssd_ensure_one(c) ==
    /\ pc[c] = "ssd_ensure_one"
    /\ IF ensure_one(call[c].self)
       THEN Goto(c, "ssd_search")
       ELSE Return(c, SingletonError(call[c].self))
    /\ UNCHANGED <<env_vars, db_vars, reg_vars, report_vars, call, snap, wr,
                   uw, stale, found, lpr_vars, prev>>

\* self.search([('is_default', '=', True)])
ssd_search(c) ==
    /\ pc[c] = "ssd_search"
    /\ found' = [found EXCEPT ![c] = search_is_default(c)]
    /\ Goto(c, "ssd_clear")
    /\ UNCHANGED <<env_vars, db_vars, reg_vars, report_vars, call, snap, wr,
                   uw, stale, lpr_vars, prev>>

\* Rows written by .write({'is_default': False}) on the records found.
clear_writes(w, recs) == Merge(w, [p \in Range(recs) |-> FALSE])

\* set_write as it would be with the assignment left out.
set_write_skipped(w, p) == w

\* set_write as it would be writing False.
set_write_false(w, p) == Merge(w, [q \in {p} |-> FALSE])

\* Row written by self.is_default = True.
set_write(w, p) == Merge(w, [q \in {p} |-> TRUE])

\* .write({'is_default': False})
ssd_clear(c) ==
    /\ pc[c] = "ssd_clear"
    /\ UpdateStatus(c, Range(found[c])) # "wait"
    /\ IF UpdateStatus(c, Range(found[c])) = "ok"
       THEN /\ wr' = [wr EXCEPT ![c] = clear_writes(wr[c], found[c])]
            /\ Goto(c, "ssd_set")
       ELSE /\ Return(c, SerializationFailure)
            /\ UNCHANGED wr
    /\ UNCHANGED <<env_vars, db_vars, reg_vars, report_vars, call, snap, uw,
                   stale, found, lpr_vars, prev>>

\* self.is_default = True
ssd_set(c) ==
    LET p == call[c].self[1]
        row == UpdateStatus(c, {p})
        excl == single_default(c, p)
    IN /\ pc[c] = "ssd_set"
       /\ row # "wait"
       /\ row = "ok" => excl # "wait"
       /\ IF row = "fail"
          THEN Return(c, SerializationFailure) /\ UNCHANGED wr
          ELSE IF excl = "violation"
          THEN Return(c, SingleDefaultError) /\ UNCHANGED wr
          ELSE /\ wr' = [wr EXCEPT ![c] = set_write(wr[c], p)]
               /\ Goto(c, "ssd_return")
       /\ UNCHANGED <<env_vars, db_vars, reg_vars, report_vars, call, snap, uw,
                      stale, found, lpr_vars, prev>>

\* return True
ssd_return(c) ==
    /\ pc[c] = "ssd_return"
    /\ Return(c, Ok)
    /\ UNCHANGED <<env_vars, db_vars, reg_vars, report_vars, call, snap, wr,
                   uw, stale, found, lpr_vars, prev>>

-----------------------------------------------------------------------------
(* spool and _spool_lpr *)

\* spool(document, title, copies) on the recordset self.
spool_call(c, selfs, documents, titles, copiess) ==
    /\ pc[c] = "idle"
    /\ \E self \in selfs, document \in documents, title \in titles,
          copies \in copiess :
        /\ BeginCall(c, "spool", self, document, title, copies, "spool_os")
        /\ UNCHANGED <<rep, vals>>

\* spool_os as it would be with the test of os.name left out.
spool_os_unchecked(c) ==
    /\ pc[c] = "spool_os"
    /\ Goto(c, "find_lpr_exec")
    /\ UNCHANGED <<env_vars, db_vars, reg_vars, report_vars, call, snap, wr,
                   uw, stale, found, lpr_vars, prev>>

\* if os.name == 'posix': ... else: raise UserError
spool_os(c) ==
    /\ pc[c] = "spool_os"
    /\ IF os_name = "posix"
       THEN Goto(c, "find_lpr_exec")
       ELSE Return(c, OsError(os_name))
    /\ UNCHANGED <<env_vars, db_vars, reg_vars, report_vars, call, snap, wr,
                   uw, stale, found, lpr_vars, prev>>

\* find_lpr_exec as it would be with a lookup that raises nothing when it
\* finds nothing.
find_lpr_exec_unchecked(c) ==
    /\ pc[c] = "find_lpr_exec"
    /\ lpr_exec' = [lpr_exec EXCEPT ![c] = lpr_path]
    /\ Goto(c, "lpr_printers")
    /\ UNCHANGED <<env_vars, db_vars, reg_vars, report_vars, call, snap, wr,
                   uw, stale, found, printers, idx, procs, output, prev>>

\* lpr_exec = _find_lpr_exec()
find_lpr_exec(c) ==
    /\ pc[c] = "find_lpr_exec"
    /\ IF lpr_path # << >>
       THEN /\ lpr_exec' = [lpr_exec EXCEPT ![c] = lpr_path]
            /\ Goto(c, "lpr_printers")
       ELSE /\ Return(c, NoLprError)
            /\ UNCHANGED lpr_exec
    /\ UNCHANGED <<env_vars, db_vars, reg_vars, report_vars, call, snap, wr,
                   uw, stale, found, printers, idx, procs, output, prev>>

\* Arguments of the spool that runs for caller c: those of the call when the
\* caller called spool, those spool_report passed on otherwise.
spool_args(c) ==
    IF call[c].op = "spool"
    THEN [self |-> call[c].self, document |-> call[c].document,
          title |-> call[c].title, copies |-> call[c].copies]
    ELSE [self |-> rep[c].self, document |-> rep[c].document,
          title |-> rep[c].title, copies |-> rep[c].copies]

\* lpr_printers as it would be remembering the first printer resolved as
\* the user's printer.
lpr_printers_remembering(c) ==
    LET ps == _printers(spool_args(c).self, UserView(c)[uid[c]],
                        search_is_default(c))
    IN /\ pc[c] = "lpr_printers"
       /\ IF ps # << >>
          THEN /\ printers' = [printers EXCEPT ![c] = ps]
               /\ idx' = [idx EXCEPT ![c] = 1]
               /\ uw' = [uw EXCEPT ![c] = Merge(uw[c], [u \in {uid[c]} |-> ps[1]])]
               /\ Goto(c, "lpr_popen")
          ELSE /\ Return(c, NoPrinterError)
               /\ UNCHANGED <<printers, idx, uw>>
       /\ UNCHANGED <<env_vars, db_vars, reg_vars, report_vars, call, snap, wr,
                      stale, found, lpr_exec, procs, output, prev>>

\* for printer in self._printers():
lpr_printers(c) ==
    LET ps == _printers(spool_args(c).self, UserView(c)[uid[c]],
                        search_is_default(c))
    IN /\ pc[c] = "lpr_printers"
       /\ IF ps # << >>
          THEN /\ printers' = [printers EXCEPT ![c] = ps]
               /\ idx' = [idx EXCEPT ![c] = 1]
               /\ Goto(c, "lpr_popen")
          ELSE /\ Return(c, NoPrinterError)
               /\ UNCHANGED <<printers, idx>>
       /\ UNCHANGED <<env_vars, db_vars, reg_vars, report_vars, call, snap, wr,
                      uw, stale, found, lpr_exec, procs, output, prev>>

\* A process just spawned by subprocess.Popen(args, ...).
Popen(printer, args) ==
    [printer |-> printer, args |-> args, stdin |-> "", stdin_closed |-> FALSE,
     exited |-> FALSE, returncode |-> 0]

\* Communicated as it would be writing the document without waiting for the
\* process to exit.
Communicated_no_wait(proc, document, returncode) ==
    [proc EXCEPT !.stdin = document, !.stdin_closed = TRUE]

\* The process after communicate(document): input written and closed, exited.
Communicated(proc, document, returncode) ==
    [proc EXCEPT !.stdin = document, !.stdin_closed = TRUE, !.exited = TRUE,
                 !.returncode = returncode]

\* Construct the command line and spawn lpr for the current printer.
lpr_popen(c) ==
    LET printer == printers[c][idx[c]]
        args == lpr_args(lpr_exec[c], queue[printer], spool_args(c).title,
                         spool_args(c).copies)
    IN /\ pc[c] = "lpr_popen"
       /\ procs' = [procs EXCEPT ![c] = Append(procs[c], Popen(printer, args))]
       /\ Goto(c, "lpr_communicate")
       /\ UNCHANGED <<env_vars, db_vars, reg_vars, report_vars, call, snap, wr,
                      uw, stale, found, lpr_exec, printers, idx, output, prev>>

\* lpr_outcome as it would be going on to the next printer after a failure.
lpr_outcome_continue(returncode, out, i, n) ==
    IF i < n THEN Running
    ELSE IF returncode # 0 THEN lpr_failed(returncode, out)
    ELSE Ok

\* What the loop does once the process has exited: raise on a non-zero
\* return code, else go on with the next printer, or return True after the last.
lpr_outcome(returncode, out, i, n) ==
    IF returncode # 0 THEN lpr_failed(returncode, out)
    ELSE IF i < n THEN Running
    ELSE Ok

\* output = lpr.communicate(document)[0]; if lpr.returncode != 0: raise
lpr_communicate(c, codes, outs) ==
    /\ pc[c] = "lpr_communicate"
    /\ \E returncode \in codes, out \in outs :
        LET n == Len(procs[c])
            res == lpr_outcome(returncode, out, idx[c], Len(printers[c]))
        IN /\ procs' = [procs EXCEPT ![c][n] =
                          Communicated(procs[c][n], spool_args(c).document,
                                       returncode)]
           /\ output' = [output EXCEPT ![c] = out]
           /\ IF res = Running
              THEN /\ idx' = [idx EXCEPT ![c] = idx[c] + 1]
                   /\ Goto(c, "lpr_popen")
              ELSE IF res = Ok /\ call[c].op # "spool"
              THEN /\ Goto(c, "sr_return")
                   /\ UNCHANGED idx
              ELSE /\ Return(c, res)
                   /\ UNCHANGED idx
           /\ UNCHANGED <<env_vars, db_vars, reg_vars, report_vars, call, snap,
                          wr, uw, stale, found, lpr_exec, printers, prev>>

-----------------------------------------------------------------------------
(* spool_report *)

\* spool_report(docids, report_name, title=title, copies=copies) on self.
spool_report_call(c, selfs, docidss, report_names, titles, copiess) ==
    /\ pc[c] = "idle"
    /\ \E self \in selfs, docids \in docidss, report_name \in report_names,
          title \in titles, copies \in copiess :
        /\ BeginCall(c, "spool_report", self, "", title, copies, "sr_report")
        /\ rep' = [rep EXCEPT ![c] = ReportFrame(self, docids, report_name,
                                                 title, copies)]
        /\ UNCHANGED vals

\* The lookups made for a report_name: none for a record, by report name
\* for a string, then by external identifier when the first finds nothing.
report_lookups(report_name) ==
    IF report_name.record THEN << >>
    ELSE IF _get_report_from_name(report_name.ref) # NoReport
    THEN <<"_get_report_from_name">>
    ELSE <<"_get_report_from_name", "ref">>

\* find_report as it would be without the lookup by external identifier.
find_report_by_name_only(report_name) ==
    IF report_name.record THEN report_name.ref
    ELSE _get_report_from_name(report_name.ref)

\* The report of a report_name: the record itself, or what the lookups find.
find_report(report_name) ==
    IF report_name.record THEN report_name.ref
    ELSE IF _get_report_from_name(report_name.ref) # NoReport
    THEN _get_report_from_name(report_name.ref)
    ELSE env_ref(report_name.ref)

UndefinedReport(n) == UserError(<<"Undefined report ", n>>)

\* if isinstance(report_name, models.BaseModel): report = report_name
\* else: the lookups, and raise UserError when they find nothing.  A record
\* is taken as it is, the empty recordset included.
sr_report(c) ==
    LET report == find_report(rep[c].report_name)
    IN /\ pc[c] = "sr_report"
       /\ rep' = [rep EXCEPT ![c].report = report,
                             ![c].lookups = report_lookups(rep[c].report_name)]
       /\ IF rep[c].report_name.record \/ report # NoReport
          THEN Goto(c, "sr_render")
          ELSE Return(c, UndefinedReport(rep[c].report_name.ref))
       /\ UNCHANGED <<env_vars, db_vars, reg_vars, tp, call, snap, wr, uw,
                      stale, found, lpr_vars, prev>>

\* report_title as it would be with "if not title:" for "if title is None:".
report_title_truthy(title, display_name, docids) ==
    IF title.given /\ title.text # << >> THEN title
    ELSE GivenTitle(display_name \o <<" ">> \o ListStr(docids))

\* if title is None: title = ("%s %s" % (report.name, str(docids)))
report_title(title, display_name, docids) ==
    IF title.given THEN title
    ELSE GivenTitle(display_name \o <<" ">> \o ListStr(docids))

\* document = report.render(docids, data)[0], the title, and the call of
\* self.spool(document, title=title, copies=copies).
sr_render(c, documents) ==
    /\ pc[c] = "sr_render"
    /\ \E document \in documents :
        rep' = [rep EXCEPT
                  ![c].document = document,
                  ![c].title = report_title(rep[c].title,
                                            report_display_name(rep[c].report),
                                            rep[c].docids)]
    /\ Goto(c, "spool_os")
    /\ UNCHANGED <<env_vars, db_vars, reg_vars, tp, call, snap, wr, uw, stale,
                   found, lpr_vars, prev>>

\* return True, to the caller or to the loop of spool_test_page, which goes
\* on with its next printer or returns True after the last.
sr_return(c) ==
    /\ pc[c] = "sr_return"
    /\ IF call[c].op = "spool_test_page" /\ tp[c].idx < Len(tp[c].printers)
       THEN /\ tp' = [tp EXCEPT ![c].idx = tp[c].idx + 1]
            /\ rep' = [rep EXCEPT ![c] = NoRep]
            /\ lpr_exec' = [lpr_exec EXCEPT ![c] = << >>]
            /\ printers' = [printers EXCEPT ![c] = << >>]
            /\ idx' = [idx EXCEPT ![c] = 0]
            /\ output' = [output EXCEPT ![c] = << >>]
            /\ Goto(c, "tp_report")
       ELSE /\ Return(c, Ok)
            /\ UNCHANGED <<report_vars, lpr_exec, printers, idx, output>>
    /\ UNCHANGED <<env_vars, db_vars, reg_vars, call, snap, wr, uw, stale,
                   found, procs, prev>>

-----------------------------------------------------------------------------
(* spool_test_page *)

spool_test_page_call(c, selfs) ==
    /\ pc[c] = "idle"
    /\ \E self \in selfs :
        /\ BeginCall(c, "spool_test_page", self, "", NoTitle, 1, "tp_printers")
        /\ UNCHANGED <<rep, vals>>

\* for printer in self._printers():
tp_printers(c) ==
    LET ps == _printers(call[c].self, UserView(c)[uid[c]], search_is_default(c))
    IN /\ pc[c] = "tp_printers"
       /\ IF ps # << >>
          THEN /\ tp' = [tp EXCEPT ![c] = [printers |-> ps, idx |-> 1]]
               /\ Goto(c, "tp_report")
          ELSE /\ Return(c, NoPrinterError)
               /\ UNCHANGED tp
       /\ UNCHANGED <<env_vars, db_vars, reg_vars, rep, call, snap, wr, uw,
                      stale, found, lpr_vars, prev>>

\* test_page_target as it would be calling spool_report on self.
test_page_target_self(self, printer) == self

\* The recordset spool_report is called on for one printer of the loop.
test_page_target(self, printer) == <<printer>>

\* printer.spool_report(printer.ids, 'print.report_test_page',
\*                      title="Test page")
tp_report(c) ==
    LET printer == tp[c].printers[tp[c].idx]
    IN /\ pc[c] = "tp_report"
       /\ rep' = [rep EXCEPT ![c] =
                    ReportFrame(test_page_target(call[c].self, printer),
                                <<printer>>, ReportName(TestPageName),
                                GivenTitle(<<"Test page">>), 1)]
       /\ Goto(c, "sr_report")
       /\ UNCHANGED <<env_vars, db_vars, reg_vars, tp, call, snap, wr, uw,
                      stale, found, lpr_vars, prev>>

-----------------------------------------------------------------------------
(* write of the barcode of printers *)

\* write({'barcode': value}) on the recordset self.
write_call(c, selfs, values) ==
    /\ pc[c] = "idle"
    /\ \E self \in selfs, value \in values :
        /\ BeginCall(c, "write", self, "", NoTitle, 1, "write_barcode")
        /\ vals' = [vals EXCEPT ![c] = value]
        /\ UNCHANGED rep

\* barcode_uniq as it would be with the unique constraint left out.
barcode_uniq_missing(c, rows, b) == "ok"

\* ('barcode_uniq', 'unique (barcode)'): the check the store makes when
\* caller c writes barcode b on rows.  NULL never conflicts; two rows of the
\* statement getting the same value do; so does another row whose latest
\* version holds b, and a row that held or may come to hold b and that an
\* open transaction is changing is waited for.  A statement on no row has
\* nothing to check.
barcode_uniq(c, rows, b) ==
    LET others == Printers \ rows
        live(q) == \/ q \in DOMAIN bw[c] /\ bw[c][q] = b
                   \/ /\ q \notin DOMAIN bw[c]
                      /\ barcode[q] = b
                      /\ \A d \in Callers \ {c} : q \notin DOMAIN bw[d]
        pending(q) == \E d \in Callers \ {c} :
                         q \in DOMAIN bw[d] /\ (bw[d][q] = b \/ barcode[q] = b)
    IN IF ~b.given \/ rows = {} THEN "ok"
       ELSE IF Cardinality(rows) > 1 \/ \E q \in others : live(q)
       THEN "violation"
       ELSE IF \E q \in others : q \notin DOMAIN bw[c] /\ pending(q) THEN "wait"
       ELSE "ok"

BarcodeError == IntegrityError(<<"The Barcode must be unique">>)

\* The UPDATE of the barcode column, and the return of write; on the empty
\* recordset no row is updated and write returns True.
write_barcode(c) ==
    LET rows == Range(call[c].self)
        row == UpdateStatus(c, rows)
        uniq == barcode_uniq(c, rows, vals[c])
    IN /\ pc[c] = "write_barcode"
       /\ row # "wait"
       /\ row = "ok" => uniq # "wait"
       /\ IF row = "fail"
          THEN Return(c, SerializationFailure) /\ UNCHANGED bw
          ELSE IF uniq = "violation"
          THEN Return(c, BarcodeError) /\ UNCHANGED bw
          ELSE /\ bw' = [bw EXCEPT ![c] =
                          Merge(bw[c], [p \in rows |-> vals[c]])]
               /\ Return(c, Ok)
       /\ UNCHANGED <<env_vars, db_vars, barcode, vals, report_vars, call,
                      snap, wr, uw, stale, found, lpr_vars, prev>>

-----------------------------------------------------------------------------
(* Specifications *)

\* A registry the store accepts: at most one printer flagged default.
Registries == {f \in [Printers -> BOOLEAN] :
                 Cardinality({p \in Printers : f[p]}) <= 1}

\* Printers with an odd id have a queue name, the others have none.
OfficeQueues == [p \in Printers |-> IF p % 2 = 0 THEN << >> ELSE <<"officeA">>]


InitLocals ==
    /\ pc = [c \in Callers |-> "idle"]
    /\ call = [c \in Callers |-> NoCall]
    /\ snap = [c \in Callers |-> NoSnap]
    /\ wr = [c \in Callers |-> EmptyMap]
    /\ uw = [c \in Callers |-> EmptyMap]
    /\ stale = [c \in Callers |-> NoStale]
    /\ found = [c \in Callers |-> << >>]
    /\ lpr_exec = [c \in Callers |-> << >>]
    /\ printers = [c \in Callers |-> << >>]
    /\ idx = [c \in Callers |-> 0]
    /\ procs = [c \in Callers |-> << >>]
    /\ output = [c \in Callers |-> << >>]
    /\ result = [c \in Callers |-> Ok]
    /\ prev = [c \in Callers |-> NoPrev]
    /\ bw = [c \in Callers |-> EmptyMap]
    /\ vals = [c \in Callers |-> NoBarcode]
    /\ rep = [c \in Callers |-> NoRep]
    /\ tp = [c \in Callers |-> NoTp]

Singletons == {s \in Recordsets : Len(s) = 1}

\* Two concurrent callers replacing the system default while they spool to
\* the default printer on a working host.
Init ==
    /\ os_name = "posix"
    /\ lpr_path = <<"/usr/bin/lpr">>
    /\ queue = OfficeQueues
    /\ name = PrinterNames
    /\ barcode = [p \in Printers |-> NoBarcode]
    /\ is_default \in Registries
    /\ printer_id = [u \in Users |-> None]
    /\ uid = [c \in Callers |-> IF c = "c1" THEN "u1" ELSE "u2"]
    /\ InitLocals

Next ==
    \E c \in Callers :
        \/ set_system_default_call(c, Singletons)
        \/ ssd_ensure_one(c)
        \/ ssd_search(c)
        \/ ssd_clear(c)
        \/ ssd_set(c)
        \/ ssd_return(c)
        \/ request_end(c)
        \/ spool_call(c, {<< >>}, {"%PDF-a"}, {NoTitle}, {1})
        \/ spool_os(c)
        \/ find_lpr_exec(c)
        \/ lpr_printers(c)
        \/ lpr_popen(c)
        \/ lpr_communicate(c, {0, 1}, {<< >>})

Spec == Init /\ [][Next]_vars

\* One caller spooling with every kind of argument on every kind of host,
\* the registry being left alone.
InitSpool ==
    /\ os_name \in OsNames
    /\ lpr_path \in LprPaths
    /\ queue = OfficeQueues
    /\ name = PrinterNames
    /\ barcode = [p \in Printers |-> NoBarcode]
    /\ is_default \in Registries
    /\ printer_id \in {f \in [Users -> Printers \cup {None}] : f["u2"] = None}
    /\ uid = [c \in Callers |-> "u1"]
    /\ InitLocals

NextSpool ==
    \/ spool_call("c1", Recordsets, Documents, Titles, CopiesValues)
    \/ spool_os("c1")
    \/ find_lpr_exec("c1")
    \/ lpr_printers("c1")
    \/ lpr_popen("c1")
    \/ lpr_communicate("c1", ExitCodes, Outputs)
    \/ request_end("c1")

SpecSpool == InitSpool /\ [][NextSpool]_vars

\* One caller setting the defaults and spooling, one call after the other.
InitDefaults ==
    /\ os_name \in OsNames
    /\ lpr_path \in LprPaths
    /\ queue = OfficeQueues
    /\ name = PrinterNames
    /\ barcode = [p \in Printers |-> NoBarcode]
    /\ is_default \in Registries
    /\ printer_id \in [Users -> Printers \cup {None}]
    /\ uid \in {f \in [Callers -> Users] : f["c2"] = "u2"}
    /\ InitLocals

NextDefaults ==
    \/ set_user_default_call("c1", Recordsets)
    \/ sud_ensure_one("c1")
    \/ sud_write("c1")
    \/ sud_return("c1")
    \/ set_system_default_call("c1", Recordsets)
    \/ ssd_ensure_one("c1")
    \/ ssd_search("c1")
    \/ ssd_clear("c1")
    \/ ssd_set("c1")
    \/ ssd_return("c1")
    \/ spool_call("c1", Recordsets, {"%PDF-a"}, {NoTitle}, {1})
    \/ spool_os("c1")
    \/ find_lpr_exec("c1")
    \/ lpr_printers("c1")
    \/ lpr_popen("c1")
    \/ lpr_communicate("c1", {0, 1}, {<< >>})
    \/ request_end("c1")

SpecDefaults == InitDefaults /\ [][NextDefaults]_vars

\* One caller spooling documents, reports and test pages, the registry being
\* left alone.
InitReport ==
    /\ os_name \in OsNames
    /\ lpr_path \in LprPaths
    /\ queue = OfficeQueues
    /\ name = PrinterNames
    /\ barcode = [p \in Printers |-> NoBarcode]
    /\ is_default \in Registries
    /\ printer_id \in {f \in [Users -> Printers \cup {None}] : f["u2"] = None}
    /\ uid = [c \in Callers |-> "u1"]
    /\ InitLocals

NextReport ==
    \/ spool_report_call("c1", Recordsets, DocidsValues, ReportRefs, Titles,
                         {1, 2})
    \/ sr_report("c1")
    \/ sr_render("c1", Documents)
    \/ spool_call("c1", Recordsets, {"%PDF-a"}, {NoTitle}, {1})
    \/ spool_os("c1")
    \/ find_lpr_exec("c1")
    \/ lpr_printers("c1")
    \/ lpr_popen("c1")
    \/ lpr_communicate("c1", {0, 1}, {<< >>})
    \/ sr_return("c1")
    \/ spool_test_page_call("c1", Recordsets)
    \/ tp_printers("c1")
    \/ tp_report("c1")
    \/ request_end("c1")

SpecReport == InitReport /\ [][NextReport]_vars

\* The recordsets write is called on: one for each set of printers.
WriteTargets == {SortedSeq(S) : S \in {T \in SUBSET Printers :
                                        Cardinality(T) <= MaxTargets}}

\* Two concurrent callers writing barcodes, one of them on one printer at a
\* time.
InitBarcode ==
    /\ os_name = "posix"
    /\ lpr_path = <<"/usr/bin/lpr">>
    /\ queue = OfficeQueues
    /\ name = PrinterNames
    /\ barcode = [p \in Printers |-> NoBarcode]
    /\ is_default = [p \in Printers |-> FALSE]
    /\ printer_id = [u \in Users |-> None]
    /\ uid = [c \in Callers |-> IF c = "c1" THEN "u1" ELSE "u2"]
    /\ InitLocals

NextBarcode ==
    \/ write_call("c1", WriteTargets, BarcodeValues)
    \/ write_call("c2", Singletons, BarcodeValues)
    \/ \E c \in Callers :
        \/ write_barcode(c)
        \/ request_end(c)

SpecBarcode == InitBarcode /\ [][NextBarcode]_vars

-----------------------------------------------------------------------------
(* Properties *)

\* Printers flagged default in the rows f.
Defaults(f) == {p \in Printers : f[p]}

InCall(c, op) == pc[c] # "idle" /\ call[c].op = op

\* C1: at most one printer is flagged default, in the committed registry and
\* in the rows any caller's transaction sees, whatever set_system_default
\* calls have run, one after the other or concurrently.
C1_AtMostOneDefault ==
    /\ Cardinality(Defaults(is_default)) <= 1
    /\ \A c \in Callers :
         pc[c] # "idle" => Cardinality(Defaults(View(c))) <= 1

\* Two set_system_default calls for different printers overlapped: one has
\* committed, the other was refused by the store.
C1_Witness ==
    \E c, d \in Callers :
        /\ c # d
        /\ prev[c].op = "set_system_default"
        /\ is_default[prev[c].printer]
        /\ pc[d] = "done"
        /\ call[d].op = "set_system_default"
        /\ call[d].self # <<prev[c].printer>>
        /\ result[d] \in {SingleDefaultError, SerializationFailure}

\* C9: a spool whose transaction began with a system default in place sees
\* exactly one printer flagged default, and the committed registry keeps
\* exactly one, however set_system_default calls replacing the default are
\* interleaved with it; such a spool never fails for want of a printer.
C9_NoWindow ==
    \A c \in Callers :
        (InCall(c, "spool") /\ Cardinality(Defaults(snap[c].is_default)) = 1)
        => /\ Cardinality(Defaults(is_default)) = 1
           /\ Cardinality(Defaults(View(c))) = 1
           /\ result[c] # NoPrinterError

\* A spool with nothing explicit and no personal default has gone to the
\* default of its snapshot while another caller replaced that default.
C9_Witness ==
    \E c, d \in Callers :
        /\ c # d
        /\ InCall(c, "spool")
        /\ pc[c] = "done"
        /\ result[c] = Ok
        /\ Len(procs[c]) = 1
        /\ ~is_default[procs[c][1].printer]
        /\ prev[d].op = "set_system_default"
        /\ is_default[prev[d].printer]

\* The spool call of caller c goes to printer p and to no other: what it
\* resolved is p alone, every process it spawned is for p, and once it is over
\* on a host that can spool, exactly one process was given the document.
RoutedTo(c, p) ==
    /\ idx[c] >= 1 => printers[c] = <<p>>
    /\ Len(procs[c]) <= 1
    /\ \A i \in DOMAIN procs[c] : procs[c][i].printer = p
    /\ result[c] # NoPrinterError
    /\ (pc[c] = "done" /\ os_name = "posix" /\ lpr_path # << >>)
       => /\ Len(procs[c]) = 1
          /\ procs[c][1].stdin = call[c].document

\* C3: once set_user_default on printer p has returned True for a caller,
\* p is that caller's personal default, and the spool the caller makes next
\* with an empty recordset goes to p alone, whatever the system default is.
C3_UserDefaultRoutes ==
    \A c \in Callers :
        prev[c].op = "set_user_default"
        => /\ printer_id[uid[c]] = prev[c].printer
           /\ (InCall(c, "spool") /\ call[c].self = << >>)
              => RoutedTo(c, prev[c].printer)

\* Such a spool is over, its one process was for p, and another printer is
\* the system default.
C3_Witness ==
    \E c \in Callers :
        /\ prev[c].op = "set_user_default"
        /\ InCall(c, "spool") /\ call[c].self = << >>
        /\ pc[c] = "done" /\ result[c] = Ok
        /\ Len(procs[c]) = 1
        /\ procs[c][1].printer = prev[c].printer
        /\ \E q \in Printers \ {prev[c].printer} : is_default[q]

\* C10: once set_system_default on printer p has returned True, p is flagged
\* default and no other printer is; the spool the caller makes next with an
\* empty recordset, having no personal default, goes to p alone.
C10_SystemDefaultSet ==
    \A c \in Callers :
        prev[c].op = "set_system_default"
        => /\ Defaults(is_default) = {prev[c].printer}
           /\ (InCall(c, "spool") /\ call[c].self = << >>
               /\ printer_id[uid[c]] = None)
              => RoutedTo(c, prev[c].printer)

\* Such a spool is over and its one process was for p.
C10_Witness ==
    \E c \in Callers :
        /\ prev[c].op = "set_system_default"
        /\ InCall(c, "spool") /\ call[c].self = << >>
        /\ printer_id[uid[c]] = None
        /\ pc[c] = "done" /\ result[c] = Ok
        /\ Len(procs[c]) = 1
        /\ procs[c][1].printer = prev[c].printer

-----------------------------------------------------------------------------
(* Reading a command line back, as lpr does *)

Absent == [given |-> FALSE, text |-> << >>]
Present(t) == [given |-> TRUE, text |-> t]
NoOpts == [P |-> Absent, T |-> Absent, N |-> Absent, files |-> 0]

\* Options of the tokens after the program name: -P, -T and -# take the next
\* token as their value, any other token is a file operand.
RECURSIVE ParseOpts(_, _)
ParseOpts(toks, acc) ==
    IF toks = << >> THEN acc
    ELSE IF Len(toks) >= 2 /\ Head(toks) = <<"-P">>
    THEN ParseOpts(Tail(Tail(toks)), [acc EXCEPT !.P = Present(toks[2])])
    ELSE IF Len(toks) >= 2 /\ Head(toks) = <<"-T">>
    THEN ParseOpts(Tail(Tail(toks)), [acc EXCEPT !.T = Present(toks[2])])
    ELSE IF Len(toks) >= 2 /\ Head(toks) = <<"-#">>
    THEN ParseOpts(Tail(Tail(toks)), [acc EXCEPT !.N = Present(toks[2])])
    ELSE ParseOpts(Tail(toks), [acc EXCEPT !.files = @ + 1])

DigitVal(ch) == CHOOSE d \in 0..9 : Digit(d) = ch

\* The number a string of decimal digits denotes.
RECURSIVE ParseNat(_)
ParseNat(ds) ==
    IF ds = << >> THEN 0
    ELSE 10 * ParseNat(SubSeq(ds, 1, Len(ds) - 1)) + DigitVal(ds[Len(ds)])

-----------------------------------------------------------------------------
(* Properties of spool *)

\* C2: what spool resolves is the explicit recordset, unchanged, when it is
\* not empty; else the caller's personal default alone when there is one; else
\* the printers flagged default.
C2_ResolutionChain ==
    \A c \in Callers :
        (InCall(c, "spool") /\ idx[c] >= 1)
        => LET self == call[c].self
               user_printer == printer_id[uid[c]]
           IN /\ self # << >> => printers[c] = self
              /\ (self = << >> /\ user_printer # None)
                 => printers[c] = <<user_printer>>
              /\ (self = << >> /\ user_printer = None)
                 => /\ Range(printers[c]) = Defaults(is_default)
                    /\ Len(printers[c]) = Cardinality(Defaults(is_default))

\* An explicit recordset was resolved to itself although the caller has a
\* personal default outside it and another printer is the system default.
C2_Witness ==
    \E c \in Callers :
        /\ InCall(c, "spool") /\ idx[c] >= 1
        /\ call[c].self # << >>
        /\ printers[c] = call[c].self
        /\ printer_id[uid[c]] # None
        /\ printer_id[uid[c]] \notin Range(call[c].self)
        /\ \E q \in Printers \ Range(call[c].self) :
             is_default[q] /\ q # printer_id[uid[c]]

\* spool on an empty recordset by a caller without personal default while no
\* printer is flagged default.
NoCandidate(c) ==
    /\ InCall(c, "spool")
    /\ call[c].self = << >>
    /\ printer_id[uid[c]] = None
    /\ Defaults(is_default) = {}

\* C4 as stated: with no explicit printer, no personal default and no system
\* default, spool spawns no process and fails with "No default printer
\* specified".
C4_Claim ==
    \A c \in Callers :
        NoCandidate(c)
        => /\ procs[c] = << >>
           /\ pc[c] = "done" => result[c] = NoPrinterError

\* C4: with no explicit printer, no personal default and no system default,
\* spool resolves nothing, spawns no process and fails: with "No default
\* printer specified" on a posix host where lpr is found, with the platform
\* error on another host, with the executable error when lpr is not found.
C4_NoPrinterConfigured ==
    \A c \in Callers :
        NoCandidate(c)
        => /\ procs[c] = << >>
           /\ idx[c] = 0
           /\ result[c] # Ok
           /\ pc[c] = "done"
              => result[c] = IF os_name # "posix" THEN OsError(os_name)
                             ELSE IF lpr_path = << >> THEN NoLprError
                             ELSE NoPrinterError

\* Such a spool has failed with "No default printer specified".
C4_Witness ==
    \E c \in Callers :
        NoCandidate(c) /\ pc[c] = "done" /\ result[c] = NoPrinterError

\* C5 as stated: a spool with copies <= 0 fails and spawns no process.
C5_Claim ==
    \A c \in Callers :
        (InCall(c, "spool") /\ call[c].copies <= 0)
        => /\ procs[c] = << >>
           /\ result[c] # Ok

\* C6: spool spawns lpr for the resolved printers in their order, one at a
\* time, and stops at the first process that fails: every process before the
\* last one exited with 0, each was given the document and the same title and
\* copies, no printer has two processes; the call returns True only when every
\* resolved printer had its process and all exited with 0, and otherwise raises
\* the error of the failing process.
C6_FailFast ==
    \A c \in Callers :
        (InCall(c, "spool") /\ idx[c] >= 1)
        => LET n == Len(printers[c])
               k == Len(procs[c])
               opts(i) == ParseOpts(Tail(procs[c][i].args), NoOpts)
           IN /\ k <= n
              /\ \A i \in 1..k :
                   /\ procs[c][i].printer = printers[c][i]
                   /\ i < k => procs[c][i].exited /\ procs[c][i].returncode = 0
                   /\ procs[c][i].exited => procs[c][i].stdin = call[c].document
                   /\ opts(i).T = opts(1).T /\ opts(i).N = opts(1).N
                   /\ \A j \in 1..k :
                        i # j => procs[c][i].printer # procs[c][j].printer
              /\ pc[c] # "done" => result[c] = Running
              /\ pc[c] = "done"
                 => /\ k >= 1
                    /\ procs[c][k].exited
                    /\ procs[c][k].returncode = 0 => (result[c] = Ok /\ k = n)
                    /\ procs[c][k].returncode # 0
                       => result[c] = lpr_failed(procs[c][k].returncode, output[c])

\* A spool to two printers is over: the first process failed and the second
\* printer got none.
C6_Witness ==
    \E c \in Callers :
        /\ InCall(c, "spool") /\ pc[c] = "done"
        /\ Len(printers[c]) = 2
        /\ Len(procs[c]) = 1
        /\ procs[c][1].returncode # 0
        /\ result[c].status = "UserError"

\* The text a captured output is when nothing is done to it: each byte as its
\* character (the ASCII bytes that have one in a string literal).
AsChar(b) == IF b = 9 THEN "\t"
             ELSE IF b = 10 THEN "\n"
             ELSE IF b = 12 THEN "\f"
             ELSE IF b = 13 THEN "\r"
             ELSE Chr(b)

AsText(bs) == [i \in DOMAIN bs |-> AsChar(bs[i])]

\* C7 as stated: a non-zero exit status makes spool fail with an error that
\* holds that exit code and the captured output as it was captured; a zero
\* exit status of the last process makes it return True.
C7_Claim ==
    \A c \in Callers :
        (InCall(c, "spool") /\ pc[c] = "done" /\ procs[c] # << >>)
        => LET last == procs[c][Len(procs[c])]
           IN /\ last.returncode = 0 => result[c] = Ok
              /\ last.returncode # 0
                 => result[c] = UserError(<<"lpr failed (error code: ">>
                                          \o str(last.returncode)
                                          \o <<"). Message: ">>
                                          \o AsText(output[c]))

\* C8: the command line of every process is lpr with -P and the printer's
\* queue exactly when the queue is not empty, -T and the title exactly when a
\* title was given, -# and the number of copies exactly when copies > 1, and
\* no file operand.
C8_CommandLine ==
    \A c \in Callers :
        \A i \in DOMAIN procs[c] :
            LET proc == procs[c][i]
                o == ParseOpts(Tail(proc.args), NoOpts)
            IN /\ Head(proc.args) = lpr_path
               /\ o.P.given <=> queue[proc.printer] # << >>
               /\ o.P.given => o.P.text = queue[proc.printer]
               /\ o.T.given <=> call[c].title.given
               /\ o.T.given => o.T.text = call[c].title.text
               /\ o.N.given <=> call[c].copies > 1
               /\ o.N.given => ParseNat(o.N.text) = call[c].copies
               /\ o.files = 0

\* A process was spawned for a printer with a queue, with a title and with
\* MaxCopies copies: its command line has the three options.
C8_Witness ==
    \E c \in Callers :
        \E i \in DOMAIN procs[c] :
            /\ queue[procs[c][i].printer] # << >>
            /\ call[c].title.given
            /\ call[c].copies = MaxCopies
            /\ Len(procs[c][i].args) = 7

-----------------------------------------------------------------------------
(* Properties of the default-setting methods *)

\* Caller c is in set_user_default or set_system_default on a recordset that
\* is not exactly one printer.
NotSingleton(c) ==
    /\ pc[c] # "idle"
    /\ call[c].op \in {"set_user_default", "set_system_default"}
    /\ Len(call[c].self) # 1

\* C11: set_user_default and set_system_default on a recordset that is empty
\* or holds more than one printer write nothing and raise the singleton
\* error, and no step of such a call, its end included, changes any printer's
\* is_default or any user's printer_id.
C11_NonSingletonRefused ==
    /\ [](\A c \in Callers :
            NotSingleton(c)
            => /\ wr[c] = EmptyMap /\ uw[c] = EmptyMap
               /\ result[c] \in {Running, SingletonError(call[c].self)}
               /\ pc[c] = "done" => result[c] = SingletonError(call[c].self))
    /\ [][\A c \in Callers :
            (NotSingleton(c) /\ pc'[c] # pc[c])
            => (is_default' = is_default /\ printer_id' = printer_id)]_vars

\* set_system_default on two printers, neither of them the default, has been
\* refused while another printer is the default and the user has a personal
\* default.
C11_Witness ==
    \E c \in Callers :
        /\ NotSingleton(c) /\ pc[c] = "done"
        /\ call[c].op = "set_system_default"
        /\ Len(call[c].self) = 2
        /\ result[c] = SingletonError(call[c].self)
        /\ printer_id[uid[c]] # None
        /\ \E q \in Printers \ Range(call[c].self) : is_default[q]

\* C12: a set_user_default that returned True leaves its printer as the
\* personal default of the caller's user, whatever that default was, and it
\* stays so until the caller's next call ends; no step of the call changes the
\* printer_id of another user or the is_default of any printer, and a call
\* that raised changes nothing.
C12_UserDefaultOverwrites ==
    /\ [](\A c \in Callers :
            prev[c].op = "set_user_default"
            => printer_id[uid[c]] = prev[c].printer)
    /\ [][\A c \in Callers :
            (InCall(c, "set_user_default") /\ pc'[c] # pc[c])
            => /\ is_default' = is_default
               /\ \A u \in Users \ {uid[c]} : printer_id'[u] = printer_id[u]
               /\ (pc[c] = "done" /\ result[c] = Ok)
                  => printer_id'[uid[c]] = call[c].self[1]
               /\ ~(pc[c] = "done" /\ result[c] = Ok)
                  => printer_id' = printer_id]_vars

\* A second set_user_default, for another printer than the one before, has
\* returned True; the other user has a personal default too and a printer is
\* the system default.
C12_Witness ==
    \E c \in Callers :
        /\ prev[c].op = "set_user_default"
        /\ InCall(c, "set_user_default")
        /\ pc[c] = "done" /\ result[c] = Ok
        /\ call[c].self # <<prev[c].printer>>
        /\ printer_id[uid[c]] = prev[c].printer
        /\ \E u \in Users \ {uid[c]} : printer_id[u] # None
        /\ \E q \in Printers : is_default[q]

-----------------------------------------------------------------------------
(* Properties of spool on a host that cannot spool *)

\* C13: on a host whose os.name is not 'posix', spool looks no executable
\* up, resolves no printer and spawns no process, whatever recordset it is
\* called on and whatever defaults exist; it raises "Cannot print on OS: "
\* followed by os.name.
C13_UnsupportedPlatform ==
    \A c \in Callers :
        (InCall(c, "spool") /\ os_name # "posix")
        => /\ pc[c] \in {"spool_os", "done"}
           /\ lpr_exec[c] = << >>
           /\ printers[c] = << >> /\ idx[c] = 0
           /\ procs[c] = << >>
           /\ pc[c] = "spool_os" => result[c] = Running
           /\ pc[c] = "done"
              => result[c] = UserError(<<"Cannot print on OS: ", os_name>>)

\* Such a spool, called on two printers with lpr installed and a system
\* default in place, has raised.
C13_Witness ==
    \E c \in Callers :
        /\ InCall(c, "spool") /\ os_name = "nt"
        /\ pc[c] = "done"
        /\ result[c].status = "UserError"
        /\ Len(call[c].self) = 2
        /\ lpr_path # << >>
        /\ \E q \in Printers : is_default[q]

-----------------------------------------------------------------------------
(* Properties of spool_report *)

\* The ids a printed list body denotes: decimal numbers separated by ", ".
RECURSIVE ParseIds(_, _)
ParseIds(toks, cur) ==
    IF toks = << >>
    THEN IF cur = << >> THEN << >> ELSE <<ParseNat(cur)>>
    ELSE IF Head(toks) = ", "
    THEN <<ParseNat(cur)>> \o ParseIds(Tail(toks), << >>)
    ELSE ParseIds(Tail(toks), Append(cur, Head(toks)))

\* A title read as "<name> [<ids>]".
TitleParts(t) ==
    LET k == CHOOSE i \in DOMAIN t : t[i] = "["
    IN [name |-> SubSeq(t, 1, k - 2), sep |-> t[k - 1],
        ids |-> ParseIds(SubSeq(t, k + 1, Len(t) - 1), << >>),
        close |-> t[Len(t)]]

\* C14: every process a spool_report spawns is for the printers resolved
\* from the recordset the method was called on, in their order, is given the
\* rendered document, carries -# with the caller's copies exactly when
\* copies > 1, and carries -T: with the caller's title when one was given
\* (the empty one included), else with the report's name, a space and the
\* list of docids.
C14_ReportToSpool ==
    \A c \in Callers :
        InCall(c, "spool_report")
        => /\ rep[c].self = call[c].self
           /\ rep[c].copies = call[c].copies
           /\ (idx[c] >= 1 /\ call[c].self # << >>) => printers[c] = call[c].self
           /\ (idx[c] >= 1 /\ call[c].self = << >> /\ printer_id[uid[c]] # None)
              => printers[c] = <<printer_id[uid[c]]>>
           /\ (idx[c] >= 1 /\ call[c].self = << >> /\ printer_id[uid[c]] = None)
              => Range(printers[c]) = Defaults(is_default)
           /\ \A i \in DOMAIN procs[c] :
                LET proc == procs[c][i]
                    o == ParseOpts(Tail(proc.args), NoOpts)
                IN /\ proc.printer = printers[c][i]
                   /\ rep[c].document \in Documents
                   /\ proc.exited => proc.stdin = rep[c].document
                   /\ o.T.given
                   /\ call[c].title.given => o.T.text = call[c].title.text
                   /\ ~call[c].title.given
                      => /\ TitleParts(o.T.text).name
                            = report_display_name(rep[c].report)
                         /\ TitleParts(o.T.text).sep = " "
                         /\ TitleParts(o.T.text).ids = rep[c].docids
                         /\ TitleParts(o.T.text).close = "]"
                   /\ o.N.given <=> call[c].copies > 1
                   /\ o.N.given => ParseNat(o.N.text) = call[c].copies

\* A spool_report without title, for two docids, of a report named by its
\* external identifier, with two copies, on two printers, has returned True.
C14_Witness ==
    \E c \in Callers :
        /\ InCall(c, "spool_report")
        /\ pc[c] = "done" /\ result[c] = Ok
        /\ ~call[c].title.given
        /\ call[c].copies = 2
        /\ Len(rep[c].docids) = 2
        /\ rep[c].report_name = ReportName("account.account_invoices")
        /\ Len(call[c].self) = 2
        /\ Len(procs[c]) = 2

-----------------------------------------------------------------------------
(* Properties of spool_test_page *)

\* C15: spool_test_page resolves its printers once, from the recordset it is
\* called on, and goes through them in order: for each it calls spool_report
\* on that printer alone, with that printer's id, the test page report and
\* the title "Test page".  Process i is for printer i, every process before
\* the last exited with 0, so the printers after a failing one get nothing;
\* the call returns True only when each of the n printers had exactly one
\* process and all exited with 0.
C15_TestPagePerPrinter ==
    /\ [](\A c \in Callers :
            InCall(c, "spool_test_page")
            => LET n == Len(tp[c].printers)
                   k == Len(procs[c])
                   i0 == tp[c].idx
               IN /\ i0 <= n /\ k <= i0 /\ (i0 >= 1 => k >= i0 - 1)
                  /\ (i0 >= 1 /\ call[c].self # << >>)
                     => tp[c].printers = call[c].self
                  /\ (i0 >= 1 /\ call[c].self = << >>
                      /\ printer_id[uid[c]] # None)
                     => tp[c].printers = <<printer_id[uid[c]]>>
                  /\ (i0 >= 1 /\ call[c].self = << >>
                      /\ printer_id[uid[c]] = None)
                     => Range(tp[c].printers) = Defaults(is_default)
                  /\ (i0 >= 1 /\ pc[c] \notin {"tp_report"})
                     => /\ rep[c].self = <<tp[c].printers[i0]>>
                        /\ rep[c].docids = <<tp[c].printers[i0]>>
                        /\ rep[c].report_name = ReportName("print.report_test_page")
                        /\ idx[c] >= 1 => printers[c] = <<tp[c].printers[i0]>>
                  /\ \A i \in 1..k :
                       LET o == ParseOpts(Tail(procs[c][i].args), NoOpts)
                       IN /\ procs[c][i].printer = tp[c].printers[i]
                          /\ i < k => /\ procs[c][i].exited
                                       /\ procs[c][i].returncode = 0
                          /\ o.T = Present(<<"Test page">>)
                          /\ ~o.N.given
                  /\ (pc[c] = "done" /\ result[c] = Ok)
                     => /\ k = n /\ n >= 1
                        /\ \A i \in 1..k : /\ procs[c][i].exited
                                             /\ procs[c][i].returncode = 0
                  /\ (pc[c] = "done" /\ k >= 1 /\ procs[c][k].returncode # 0)
                     => result[c].status = "UserError")
    /\ [][\A c \in Callers :
            (InCall(c, "spool_test_page") /\ tp[c].idx >= 1 /\ pc'[c] # "idle")
            => tp'[c].printers = tp[c].printers]_vars

\* A spool_test_page on two printers has returned True after two processes.
C15_Witness ==
    \E c \in Callers :
        /\ InCall(c, "spool_test_page")
        /\ pc[c] = "done" /\ result[c] = Ok
        /\ Len(call[c].self) = 2
        /\ Len(procs[c]) = 2
        /\ procs[c][1].printer = call[c].self[1]
        /\ procs[c][2].printer = call[c].self[2]

-----------------------------------------------------------------------------
(* Properties of the barcode *)

\* C16: no two printers hold the same barcode that is not empty, in the
\* committed rows; a write that returned True gave its printer no barcode
\* another printer holds; a write refused for the barcode has written no row,
\* and the end of a write that raised changes no barcode; a write spawns no
\* process.
C16_BarcodeUnique ==
    /\ [](\A p, q \in Printers :
            (p # q /\ barcode[p].given /\ barcode[p].text # << >>)
            => barcode[p] # barcode[q])
    /\ [](\A c \in Callers :
               InCall(c, "write")
               => /\ procs[c] = << >>
                  /\ (pc[c] = "done" /\ result[c] = Ok /\ vals[c].given
                      /\ call[c].self # << >>)
                     => \A q \in Printers \ Range(call[c].self) :
                           barcode[q] # vals[c]
                  /\ (pc[c] = "done" /\ result[c] # Ok) => bw[c] = EmptyMap)
    /\ [][\A c \in Callers :
            (InCall(c, "write") /\ pc[c] = "done" /\ result[c] # Ok
             /\ pc'[c] = "idle")
            => barcode' = barcode]_vars

\* A write of a barcode another printer holds has been refused.
C16_Witness ==
    \E c \in Callers :
        /\ InCall(c, "write") /\ pc[c] = "done"
        /\ result[c] = BarcodeError
        /\ Len(call[c].self) = 1
        /\ vals[c].text # << >>
        /\ \E q \in Printers \ Range(call[c].self) : barcode[q] = vals[c]

-----------------------------------------------------------------------------
(* Properties of the lpr processes *)

\* The process has been given the whole document, its input is closed and it
\* has exited.
Finished(proc, document) ==
    proc.stdin = document /\ proc.stdin_closed /\ proc.exited

\* C17: of the processes a spool has spawned, only the last one can be
\* running, and only while spool waits in communicate(); a process is spawned
\* only when every earlier one has been given the whole document, had its
\* input closed and exited; when spool has returned or raised, every process
\* it spawned has exited.
C17_NoOverlap ==
    /\ [](\A c \in Callers :
            InCall(c, "spool")
            => /\ \A i \in DOMAIN procs[c] :
                    \/ Finished(procs[c][i], call[c].document)
                    \/ i = Len(procs[c]) /\ pc[c] = "lpr_communicate"
               /\ pc[c] = "done"
                  => \A i \in DOMAIN procs[c] : procs[c][i].exited)
    /\ [][\A c \in Callers :
            (InCall(c, "spool") /\ Len(procs'[c]) > Len(procs[c]))
            => /\ Len(procs'[c]) = Len(procs[c]) + 1
               /\ \A i \in DOMAIN procs[c] :
                    /\ Finished(procs[c][i], call[c].document)
                    /\ procs'[c][i] = procs[c][i]]_vars

\* A spool to two printers waits for its second process, the first having
\* exited.
C17_Witness ==
    \E c \in Callers :
        /\ InCall(c, "spool") /\ pc[c] = "lpr_communicate"
        /\ Len(procs[c]) = 2
        /\ Finished(procs[c][1], call[c].document)
        /\ ~procs[c][2].exited

-----------------------------------------------------------------------------
(* Order of the errors *)

\* A printer can be resolved for caller c from the recordset self.
Resolvable(c, self) ==
    \/ self # << >>
    \/ printer_id[uid[c]] # None
    \/ Defaults(is_default) # {}

\* The report_name is a record or names a report, by report name or by
\* external identifier.
ReportResolves(report_name) ==
    \/ report_name.record
    \/ _get_report_from_name(report_name.ref) \in Reports
    \/ env_ref(report_name.ref) \in Reports

\* How a spool on self that is over can have ended: with the platform error
\* on a host that is not posix; else with the executable error when lpr is
\* not found; else with the printer error when no printer can be resolved;
\* and only else with processes, the last of which failed unless True was
\* returned.  No process was spawned in the first three cases.
SpoolEnded(c, self) ==
    IF os_name # "posix"
    THEN /\ result[c] = UserError(<<"Cannot print on OS: ", os_name>>)
         /\ procs[c] = << >>
    ELSE IF lpr_path = << >>
    THEN /\ result[c] = UserError(<<"Cannot find lpr executable">>)
         /\ procs[c] = << >>
    ELSE IF ~Resolvable(c, self)
    THEN /\ result[c] = UserError(<<"No default printer specified">>)
         /\ procs[c] = << >>
    ELSE /\ procs[c] # << >>
         /\ \/ result[c] = Ok
            \/ /\ procs[c][Len(procs[c])].returncode # 0
               /\ result[c].status = "UserError"
               /\ Head(result[c].msg) = "lpr failed (error code: "

\* C18: the error of a spool follows the order of its checks: platform, then
\* executable, then printer, then the failure of a process.  A spool_report
\* whose report_name names no report raises "Undefined report" with nothing
\* rendered and no process; any other spool_report that is over has rendered
\* its document, also when its spool then failed, and ended as a spool does.
C18_ErrorPrecedence ==
    \A c \in Callers :
        /\ (InCall(c, "spool") /\ pc[c] = "done") => SpoolEnded(c, call[c].self)
        /\ (InCall(c, "spool_report") /\ pc[c] = "done")
           => IF ~ReportResolves(rep[c].report_name)
              THEN /\ result[c] = UserError(<<"Undefined report ",
                                              rep[c].report_name.ref>>)
                   /\ rep[c].document = ""
                   /\ procs[c] = << >>
              ELSE /\ rep[c].document \in Documents
                   /\ SpoolEnded(c, call[c].self)

\* A spool for which no printer can be resolved, on a posix host without lpr,
\* has raised the executable error.
C18_Witness ==
    \E c \in Callers :
        /\ InCall(c, "spool") /\ pc[c] = "done"
        /\ os_name = "posix" /\ lpr_path = << >>
        /\ ~Resolvable(c, call[c].self)
        /\ result[c] = NoLprError

-----------------------------------------------------------------------------
(* Properties of the report reference *)

\* The call raised "Undefined report".
RaisedUndefined(c) ==
    /\ result[c].status = "UserError"
    /\ Head(result[c].msg) = "Undefined report "

\* C19: once spool_report has dealt with its report_name: a name that finds
\* no report, by report name or by external identifier, has made the call
\* raise "Undefined report" with that name, with nothing rendered, no
\* executable looked up, no printer resolved and no process spawned; a record
\* (the empty recordset included) is used as it is, without any lookup; and
\* "Undefined report" is raised in no other case.
C19_ReportNotFound ==
    \A c \in Callers :
        (InCall(c, "spool_report") /\ pc[c] # "sr_report")
        => LET rn == rep[c].report_name
           IN /\ rn.record
                 => /\ rep[c].lookups = << >>
                    /\ rep[c].report = rn.ref
                    /\ ~RaisedUndefined(c)
              /\ ~rn.record
                 => /\ Len(rep[c].lookups) \in {1, 2}
                    /\ rep[c].lookups[1] = "_get_report_from_name"
                    /\ Len(rep[c].lookups) = 2
                       <=> _get_report_from_name(rn.ref) \notin Reports
              /\ ~ReportResolves(rn)
                 => /\ pc[c] = "done"
                    /\ result[c] = UserError(<<"Undefined report ", rn.ref>>)
                    /\ rep[c].document = ""
                    /\ lpr_exec[c] = << >>
                    /\ printers[c] = << >> /\ idx[c] = 0
                    /\ procs[c] = << >>
              /\ RaisedUndefined(c) => ~ReportResolves(rn)

\* A spool_report for a name that finds no report, on one printer of a host
\* that can spool, has raised.
C19_Witness ==
    \E c \in Callers :
        /\ InCall(c, "spool_report") /\ pc[c] = "done"
        /\ ~ReportResolves(rep[c].report_name)
        /\ RaisedUndefined(c)
        /\ Len(rep[c].lookups) = 2
        /\ Len(call[c].self) = 1
        /\ os_name = "posix" /\ lpr_path # << >>

-----------------------------------------------------------------------------
(* The spooling methods and the configuration *)

SpoolOps == {"spool", "spool_report", "spool_test_page"}

\* How the processes of a call decide its end: the error of the one that
\* failed, True when none did.
ProcsOutcome(c) ==
    IF \E i \in DOMAIN procs[c] : procs[c][i].returncode # 0
    THEN lpr_failed(procs[c][Len(procs[c])].returncode, output[c])
    ELSE Ok

\* How spool ends on this host for a caller and a recordset.
HostOutcome(c, self) ==
    IF os_name # "posix" THEN OsError(os_name)
    ELSE IF lpr_path = << >> THEN NoLprError
    ELSE IF ~Resolvable(c, self) THEN NoPrinterError
    ELSE ProcsOutcome(c)

\* The end of a spooling call as its arguments, the host, the rows and the
\* exit of its processes decide it.
Outcome(c) ==
    IF call[c].op = "spool_report" /\ ~ReportResolves(rep[c].report_name)
    THEN UndefinedReport(rep[c].report_name.ref)
    ELSE IF call[c].op = "spool_test_page" /\ ~Resolvable(c, call[c].self)
    THEN NoPrinterError
    ELSE HostOutcome(c, call[c].self)

\* Caller c holds nothing of an earlier call.
Fresh(c) ==
    /\ call[c] = NoCall /\ result[c] = Ok /\ prev[c] = NoPrev
    /\ snap[c] = NoSnap /\ stale[c] = NoStale
    /\ wr[c] = EmptyMap /\ uw[c] = EmptyMap /\ bw[c] = EmptyMap
    /\ found[c] = << >> /\ vals[c] = NoBarcode
    /\ lpr_exec[c] = << >> /\ printers[c] = << >> /\ idx[c] = 0
    /\ procs[c] = << >> /\ output[c] = << >>
    /\ rep[c] = NoRep /\ tp[c] = NoTp

\* C20: a spool, spool_report or spool_test_page writes no row, and no step
\* of it, its end included, changes the name, barcode, queue or is_default of
\* a printer or the printer_id of a user; it ends as its arguments, the host,
\* the rows and the exit of its processes decide; and once it is over,
\* whether it returned or raised, the caller holds nothing of it, so the
\* next call starts as a first call does.
C20_ReadOnlyStateless ==
    /\ [](\A c \in Callers :
            (pc[c] # "idle" /\ call[c].op \in SpoolOps)
            => /\ wr[c] = EmptyMap /\ uw[c] = EmptyMap /\ bw[c] = EmptyMap
               /\ pc[c] = "done" => result[c] = Outcome(c))
    /\ [](\A c \in Callers : pc[c] = "idle" /\ prev[c] = NoPrev => Fresh(c))
    /\ [][\A c \in Callers :
            (pc[c] # "idle" /\ call[c].op \in SpoolOps /\ pc'[c] # pc[c])
            => /\ UNCHANGED <<name, barcode, queue, is_default, printer_id>>
               /\ pc'[c] = "idle" => Fresh(c)']_vars

\* A spool_test_page on two printers has raised for the second, the first
\* having had its page; the user has a personal default and a printer is the
\* system default.
C20_Witness ==
    \E c \in Callers :
        /\ InCall(c, "spool_test_page") /\ pc[c] = "done"
        /\ Len(tp[c].printers) = 2
        /\ Len(procs[c]) = 2
        /\ procs[c][1].returncode = 0
        /\ procs[c][2].returncode # 0
        /\ result[c].status = "UserError"
        /\ printer_id[uid[c]] # None
        /\ \E q \in Printers : is_default[q]

====
